---- MODULE Spec2Model ----
(***************************************************************************)
(* A model of the DASF toolbox core: the statistics utilities, the LCMV    *)
(* data retriever and the LCMV / MMSE optimization problems.               *)
(*                                                                         *)
(* Real numbers are exact rationals <<num, den>> in lowest terms with a    *)
(* positive denominator; a zero denominator stands for the inf and nan of  *)
(* a division by zero.  Floating-point rounding is not modelled.  A        *)
(* matrix is a non-empty sequence of equally long non-empty rows.  A       *)
(* Python call either returns a value or raises: its outcome is a record   *)
(* [ok, val, err].                                                         *)
(***************************************************************************)
EXTENDS Integers, Sequences, FiniteSets, TLC

VARIABLES wfArg, wfOut, retr, rcall, prob, pcall, ucall, legacy, lcall, writes

vars == <<wfArg, wfOut, retr, rcall, prob, pcall, ucall, legacy, lcall, writes>>

\* the variables of the utilities, of the legacy retriever and of the consumer
others == <<ucall, legacy, lcall, writes>>

\* Python's None, and a value that may be None: <<>> or <<value>>
None == <<>>

Some(v) == <<v>>

Get(o) == o[1]

(***************************************************************************)
(* Outcomes of Python calls.                                               *)
(***************************************************************************)
Return(v) == [ok |-> TRUE, val |-> Some(v), err |-> ""]

Raise(e) == [ok |-> FALSE, val |-> None, err |-> e]

\* the value a call returned
Val(r) == Get(r.val)

\* F of the value of r when r returned, the exception of r otherwise
Then(r, F(_)) == IF r.ok THEN F(Val(r)) ELSE r

(***************************************************************************)
(* Exact rational arithmetic.                                              *)
(***************************************************************************)
Abs(x) == IF x < 0 THEN -x ELSE x

RECURSIVE Gcd(_, _)
Gcd(a, b) == IF b = 0 THEN a ELSE Gcd(b, a % b)

\* n / d in lowest terms.  A zero denominator is the result numpy gives for
\* a division by zero: <<1, 0>> is inf, <<-1, 0>> is -inf and <<0, 0>> is nan
Rat(n, d) ==
  IF d = 0 THEN <<IF n > 0 THEN 1 ELSE IF n < 0 THEN -1 ELSE 0, 0>>
  ELSE LET g == Gcd(Abs(n), Abs(d))
           s == IF d < 0 THEN -1 ELSE 1
       IN  <<(s * n) \div g, (s * d) \div g>>

Inf == <<1, 0>>

NaN == <<0, 0>>

IsFinite(p) == p[2] # 0

RInt(n) == <<n, 1>>

RNeg(p) == <<-p[1], p[2]>>

\* over the least common denominator, to keep the intermediate integers small
\* inf + (-inf) and anything + nan are nan
RAdd(p, q) ==
  IF IsFinite(p) /\ IsFinite(q)
  THEN LET g == Gcd(p[2], q[2])
       IN  Rat(p[1] * (q[2] \div g) + q[1] * (p[2] \div g), (p[2] \div g) * q[2])
  ELSE IF IsFinite(q) THEN p
  ELSE IF IsFinite(p) THEN q
  ELSE IF p = q THEN p
  ELSE NaN

RSub(p, q) == RAdd(p, RNeg(q))

\* the common factors are cancelled before the products are taken
\* 0 * inf and anything * nan are nan
RMul(p, q) ==
  IF IsFinite(p) /\ IsFinite(q)
  THEN LET g == Gcd(Abs(p[1]), q[2])
           h == Gcd(Abs(q[1]), p[2])
       IN  Rat((p[1] \div g) * (q[1] \div h), (p[2] \div h) * (q[2] \div g))
  ELSE Rat(p[1] * q[1], 0)

\* x / 0 is inf or -inf, 0 / 0 is nan, x / inf is 0
RDiv(p, q) ==
  IF IsFinite(q) THEN RMul(p, Rat(q[2], q[1]))
  ELSE IF IsFinite(p) THEN RInt(0)
  ELSE NaN

\* == of two floats: nan is equal to nothing
REq(p, q) == p # NaN /\ q # NaN /\ p = q

RLt(p, q) == p[1] * q[2] < q[1] * p[2]

RLe(p, q) == p[1] * q[2] <= q[1] * p[2]

RECURSIVE RSum(_)
RSum(s) == IF s = <<>> THEN RInt(0) ELSE RAdd(s[1], RSum(Tail(s)))

(***************************************************************************)
(* numpy arrays of two dimensions.                                         *)
(***************************************************************************)
\* the sequence <<F(1), ..., F(n)>>, built entry by entry
Vector(n, F(_)) == [k \in 1..n |-> F(k)] \o <<>>

\* the r x c matrix whose entry (i, j) is F(i, j)
Matrix(r, c, F(_, _)) == Vector(r, LAMBDA i : Vector(c, LAMBDA j : F(i, j)))

Rows(m) == Len(m)

Cols(m) == Len(m[1])

Shape(m) == <<Rows(m), Cols(m)>>

\* an integer matrix as a matrix of rationals
Real(m) == Matrix(Rows(m), Cols(m), LAMBDA i, j : RInt(m[i][j]))

\* a transpose left out: the matrix itself
T_forgotten(m) == m

\* matrix.T
T(m) == Matrix(Cols(m), Rows(m), LAMBDA j, i : m[i][j])

\* a @ b: numpy raises ValueError on a core-dimension mismatch
MatMul(a, b) ==
  IF Cols(a) # Rows(b) THEN Raise("ValueError")
  ELSE Return(Matrix(Rows(a), Cols(b), LAMBDA i, j :
                 RSum(Vector(Cols(a), LAMBDA k : RMul(a[i][k], b[k][j])))))

\* matrix / scalar and matrix * scalar; a division by 0 gives inf and nan
DivScalar(m, q) == Matrix(Rows(m), Cols(m), LAMBDA i, j : RDiv(m[i][j], q))

MulScalar(m, q) == Matrix(Rows(m), Cols(m), LAMBDA i, j : RMul(m[i][j], q))

\* numpy broadcasting of two 2-D shapes: equal, or one of them 1, per axis
BroadcastDim(x, y) == IF x = y THEN x ELSE IF x = 1 THEN y ELSE IF y = 1 THEN x ELSE 0

\* the entry of m that broadcasting reads at (i, j)
At(m, i, j) == m[IF Rows(m) = 1 THEN 1 ELSE i][IF Cols(m) = 1 THEN 1 ELSE j]

\* a + b and a - b, elementwise with broadcasting
Elementwise(a, b, Op(_, _)) ==
  LET r == BroadcastDim(Rows(a), Rows(b))
      c == BroadcastDim(Cols(a), Cols(b))
  IN  IF r = 0 \/ c = 0 THEN Raise("ValueError")
      ELSE Return(Matrix(r, c, LAMBDA i, j : Op(At(a, i, j), At(b, i, j))))

Add(a, b) == Elementwise(a, b, RAdd)

Sub(a, b) == Elementwise(a, b, RSub)

\* np.trace: the sum of the main diagonal, of a square matrix or not
Trace(m) ==
  LET k == IF Rows(m) < Cols(m) THEN Rows(m) ELSE Cols(m)
  IN  RSum(Vector(k, LAMBDA i : m[i][i]))

\* m without row i and column j
Minor(m, i, j) ==
  Matrix(Rows(m) - 1, Cols(m) - 1, LAMBDA a, b :
    m[IF a < i THEN a ELSE a + 1][IF b < j THEN b ELSE b + 1])

RECURSIVE Det(_)
Det(m) ==
  IF Rows(m) = 1 THEN m[1][1]
  ELSE RSum(Vector(Cols(m), LAMBDA j :
              RMul(IF j % 2 = 1 THEN m[1][j] ELSE RNeg(m[1][j]), Det(Minor(m, 1, j)))))

\* an inverse that does not fail on a singular matrix: it gives zeros, as a
\* pseudo-inverse gives for a zero matrix
Inv_lenient(m) ==
  IF Rows(m) # Cols(m) THEN Raise("LinAlgError")
  ELSE IF Det(m) = RInt(0)
       THEN Return(Matrix(Rows(m), Cols(m), LAMBDA i, j : RInt(0)))
  ELSE IF Rows(m) = 1 THEN Return(<<<<RDiv(RInt(1), m[1][1])>>>>)
  ELSE Return(Matrix(Rows(m), Cols(m), LAMBDA i, j :
                 RDiv(RMul(IF (i + j) % 2 = 0 THEN RInt(1) ELSE RInt(-1),
                           Det(Minor(m, j, i))),
                      Det(m))))

\* np.linalg.inv: LinAlgError for a non-square or a singular matrix
Inv(m) ==
  IF Rows(m) # Cols(m) THEN Raise("LinAlgError")
  ELSE IF Det(m) = RInt(0) THEN Raise("LinAlgError")
  ELSE IF Rows(m) = 1 THEN Return(<<<<RDiv(RInt(1), m[1][1])>>>>)
  ELSE Return(Matrix(Rows(m), Cols(m), LAMBDA i, j :
                 RDiv(RMul(IF (i + j) % 2 = 0 THEN RInt(1) ELSE RInt(-1),
                           Det(Minor(m, j, i))),
                      Det(m))))

(***************************************************************************)
(* The drift weights: LCMVDataRetriever.weight_function.                   *)
(***************************************************************************)
\* nb_windows below this get no drift
RampThreshold == 10

\* np.zeros(n)
Zeros(n) == Vector(n, LAMBDA k : RInt(0))

\* np.linspace(0, 1, num, endpoint=True): the step is 1 / (num - 1)
LinspaceClosed(num) ==
  Vector(num, LAMBDA k : IF num = 1 THEN RInt(0) ELSE Rat(k - 1, num - 1))

\* np.linspace(0, 1, num, endpoint=False): the step is 1 / num
Linspace(num) == Vector(num, LAMBDA k : Rat(k - 1, num))

\* int(share * nb_windows / 10) for nb_windows >= 0
SegmentLength(share, nb_windows) == (share * nb_windows) \div 10

weight_function(nb_windows) ==
  IF nb_windows < RampThreshold THEN Zeros(nb_windows)
  ELSE Linspace(SegmentLength(5, nb_windows))
         \o Linspace(SegmentLength(3, nb_windows))
         \o Linspace(SegmentLength(2, nb_windows))

(***************************************************************************)
(* The seeded random generator.  A generator is its state, a number; a     *)
(* draw advances it.  Standard normal draws come from the finite alphabet  *)
(* {-2, -1, 1, 2}.                                                         *)
(***************************************************************************)
\* a full-period linear congruential step
RngStep(s) == (5 * s + 3) % 256

RECURSIVE RngAfter(_, _)
\* the generator state after k draws
RngAfter(s, k) == IF k = 0 THEN s ELSE RngAfter(RngStep(s), k - 1)

\* the value drawn in state s
StandardNormal(s) ==
  LET b == (s \div 64) % 4
  IN  IF b = 0 THEN -2 ELSE IF b = 1 THEN -1 ELSE IF b = 2 THEN 1 ELSE 2

\* rng.normal(loc=0, scale=scale, size=(r, c)) drawn from state s, row-major
Normal(s, scale, r, c) ==
  Matrix(r, c, LAMBDA i, j :
    RMul(scale, RInt(StandardNormal(RngAfter(s, (i - 1) * c + j)))))

(***************************************************************************)
(* Square roots, exact where the model takes them: of squares of rationals.*)
(***************************************************************************)
IsSquareInt(n) == \E k \in 0..n : k * k = n

SqrtInt(n) == CHOOSE k \in 0..n : k * k = n

IsSquare(q) == q[1] >= 0 /\ IsSquareInt(q[1]) /\ IsSquareInt(q[2])

\* np.sqrt of the square of a rational
Sqrt(q) == <<SqrtInt(q[1]), SqrtInt(q[2])>>

\* the square of np.linalg.norm(m, "fro")
FroSq(m) == RSum(Vector(Rows(m) * Cols(m), LAMBDA k :
                    LET e == m[((k - 1) \div Cols(m)) + 1][((k - 1) % Cols(m)) + 1]
                    IN  RMul(e, e)))

(***************************************************************************)
(* utils.normalize.  An entry of the result is (x - mean) * scale / std,   *)
(* with std the square root of the row's variance: it is kept exactly, as  *)
(* its sign and its square, <<sign, square>>.  A row of zero variance      *)
(* divides 0 by 0: its entries are "nan".                                  *)
(***************************************************************************)
Sign(q) == IF q[1] > 0 THEN 1 ELSE IF q[1] < 0 THEN -1 ELSE 0

\* np.mean(data, axis=1) of row i
RowMean(data, i) == RDiv(RSum(data[i]), RInt(Cols(data)))

\* np.var(data, axis=1) of row i: the mean squared deviation from the mean
RowVar(data, i) ==
  LET mean == RowMean(data, i)
  IN  RDiv(RSum(Vector(Cols(data), LAMBDA j :
                  LET c == RSub(data[i][j], mean) IN RMul(c, c))),
           RInt(Cols(data)))

\* one entry: the deviation c from the mean, scaled, over the root of v
Normalized(c, v) == IF v = RInt(0) THEN <<"nan">> ELSE <<Sign(c), RDiv(RMul(c, c), v)>>

normalize(data, scale) ==
  Vector(Rows(data), LAMBDA i :
    LET mean == RowMean(data, i)
        var == RowVar(data, i)
    IN  Vector(Cols(data), LAMBDA j :
          Normalized(RMul(scale, RSub(data[i][j], mean)), var)))

(***************************************************************************)
(* problem_settings.ProblemInputs, as the retriever and the problems use   *)
(* it: three lists of matrices.                                            *)
(***************************************************************************)
ProblemInputs(fused_signals, fused_constants, global_parameters) ==
  [fused_signals |-> fused_signals,
   fused_constants |-> fused_constants,
   global_parameters |-> global_parameters]

(***************************************************************************)
(* LCMVDataRetriever.                                                      *)
(***************************************************************************)
\* matrix[:, 0:stop] for stop >= 0, and matrix[:, 0:None]
ColumnSlice(matrix, stop) ==
  LET n == IF stop = None THEN Cols(matrix)
           ELSE IF Get(stop) < Cols(matrix) THEN Get(stop) ELSE Cols(matrix)
  IN  Matrix(Rows(matrix), n, LAMBDA i, j : matrix[i][j])

\* __init__: the attributes of the object built from the arguments a, whose
\* rng is a generator state
LCMVDataRetriever(a) ==
  LET nb_samples == a.window_length
      sD == a.rng
      D == Normal(sD, Sqrt(a.signal_var), a.nb_sources, nb_samples)
      sA == RngAfter(sD, a.nb_sources * nb_samples)
      A_0 == Normal(sA, Sqrt(a.mixture_var), a.nb_sensors, a.nb_sources)
      sDelta == RngAfter(sA, a.nb_sensors * a.nb_sources)
      Delta0 == Normal(sDelta, Sqrt(a.mixture_var), a.nb_sensors, a.nb_sources)
      Delta == MulScalar(Delta0,
                 RMul(Sqrt(RDiv(FroSq(A_0), FroSq(Delta0))), a.diff_var))
      sNoise == RngAfter(sDelta, a.nb_sensors * a.nb_sources)
      noise == Normal(sNoise, Sqrt(a.noise_var), a.nb_sensors, nb_samples)
      sH == RngAfter(sNoise, a.nb_sensors * nb_samples)
      nb_steering == IF a.nb_steering # None THEN Get(a.nb_steering)
                     ELSE a.nb_filters
  IN  [D |-> D,
       A_0 |-> A_0,
       Delta |-> Delta,
       noise |-> noise,
       nb_filters |-> a.nb_filters,
       nb_steering |-> nb_steering,
       B |-> ColumnSlice(A_0, a.nb_steering),
       H |-> Normal(sH, RInt(1), a.nb_filters, nb_steering),
       weights |-> weight_function(a.nb_windows)]

\* the generator state __init__ leaves behind
RngAfterInit(a) ==
  RngAfter(a.rng,
           a.nb_sources * a.window_length + 2 * a.nb_sensors * a.nb_sources
             + a.nb_sensors * a.window_length
             + a.nb_filters * (IF a.nb_steering # None THEN Get(a.nb_steering)
                               ELSE a.nb_filters))

\* sequence[index] of Python: a negative index counts from the end
Index(sequence, index) ==
  IF 0 <= index /\ index < Len(sequence) THEN Return(sequence[index + 1])
  ELSE IF -Len(sequence) <= index /\ index < 0
       THEN Return(sequence[Len(sequence) + index + 1])
  ELSE Raise("IndexError")

get_data_window(self, window_id) ==
  Then(Index(self.weights, window_id), LAMBDA weight :
    Then(Add(self.A_0, MulScalar(self.Delta, weight)), LAMBDA A :
      Then(MatMul(A, self.D), LAMBDA AD :
        Then(Add(AD, self.noise), LAMBDA Y_window :
          Return(ProblemInputs(<<normalize(Y_window, RInt(1))>>,
                               <<self.B>>, <<self.H>>))))))

\* get_data_window, had it added the drift to self.A_0 in place
after_get_data_window_in_place(self, window_id) ==
  LET weight == Index(self.weights, window_id)
  IN  IF weight.ok
      THEN [self EXCEPT !.A_0 = Val(Add(self.A_0, MulScalar(self.Delta, Val(weight))))]
      ELSE self

\* the attributes after get_data_window: it assigns none
after_get_data_window(self, window_id) == self

\* the generator after a get_data_window that draws the noise block anew
rng_after_get_data_window_redrawn(self, rng) ==
  RngAfter(rng, Rows(self.noise) * Cols(self.noise))

\* the generator after get_data_window: it draws nothing
rng_after_get_data_window(self, rng) == rng

(***************************************************************************)
(* The legacy LCMVDataRetriever of data_retriever.py.  Its constructor     *)
(* takes nb_samples where the canonical one takes the window parameters:   *)
(* it is given a.window_length.  Its normalize is taken to be the one of   *)
(* utils.                                                                  *)
(***************************************************************************)
Legacy_weight_function(nb_windows) ==
  Linspace(SegmentLength(5, nb_windows))
    \o Linspace(SegmentLength(3, nb_windows))
    \o Linspace(SegmentLength(2, nb_windows))

Legacy_LCMVDataRetriever(a) ==
  LET nb_samples == a.window_length
      sD == a.rng
      D == Normal(sD, Sqrt(a.signal_var), a.nb_sources, nb_samples)
      sA == RngAfter(sD, a.nb_sources * nb_samples)
      A_0 == Normal(sA, Sqrt(a.mixture_var), a.nb_sensors, a.nb_sources)
      sDelta == RngAfter(sA, a.nb_sensors * a.nb_sources)
      Delta0 == Normal(sDelta, Sqrt(a.mixture_var), a.nb_sensors, a.nb_sources)
      Delta == MulScalar(Delta0,
                 RMul(Sqrt(RDiv(FroSq(A_0), FroSq(Delta0))), a.diff_var))
      sNoise == RngAfter(sDelta, a.nb_sensors * a.nb_sources)
      noise == Normal(sNoise, Sqrt(a.noise_var), a.nb_sensors, nb_samples)
      sH == RngAfter(sNoise, a.nb_sensors * nb_samples)
      nb_steering == IF a.nb_steering # None THEN Get(a.nb_steering)
                     ELSE a.nb_filters
  IN  [D |-> D,
       A_0 |-> A_0,
       Delta |-> Delta,
       noise |-> noise,
       nb_filters |-> a.nb_filters,
       nb_steering |-> nb_steering,
       B |-> ColumnSlice(A_0, a.nb_steering),
       H |-> Normal(sH, RInt(1), a.nb_filters, nb_steering),
       weights |-> Legacy_weight_function(a.nb_windows)]

get_current_window(self, window_id) ==
  Then(Index(self.weights, window_id), LAMBDA weight :
    Then(Add(self.A_0, MulScalar(self.Delta, weight)), LAMBDA A :
      Then(MatMul(A, self.D), LAMBDA AD :
        Then(Add(AD, self.noise), LAMBDA Y_window :
          Return(ProblemInputs(<<normalize(Y_window, RInt(1))>>,
                               <<self.B>>, <<self.H>>))))))

(***************************************************************************)
(* utils: the second-moment statistics.                                    *)
(***************************************************************************)
\* (matrix + matrix.T) / 2
make_symmetric(matrix) ==
  Then(Add(matrix, T(matrix)), LAMBDA sum : Return(DivScalar(sum, RInt(2))))

\* if normalizer is None: normalizer = np.size(data, 1)
Normalizer(data, normalizer) ==
  IF normalizer = None THEN RInt(Cols(data)) ELSE RInt(Get(normalizer))

autocorrelation_matrix(data, normalizer) ==
  Then(MatMul(data, T(data)), LAMBDA product :
    make_symmetric(DivScalar(product, Normalizer(data, normalizer))))

cross_correlation_matrix(data1, data2, normalizer) ==
  Then(MatMul(data1, T(data2)), LAMBDA product :
    Return(DivScalar(product, Normalizer(data1, normalizer))))

\* np.mean(data, axis=1): an array of one dimension, one mean per row
Mean(data) == Vector(Rows(data), LAMBDA i : RowMean(data, i))

\* u @ v.T of two arrays of one dimension: .T leaves such an array as it
\* is, and @ is their inner product, a scalar
Dot(u, v) ==
  IF Len(u) # Len(v) THEN Raise("ValueError")
  ELSE Return(RSum(Vector(Len(u), LAMBDA k : RMul(u[k], v[k]))))

\* matrix - scalar: the scalar is subtracted from every entry
SubScalar(m, q) == Matrix(Rows(m), Cols(m), LAMBDA i, j : RSub(m[i][j], q))

covariance_matrix(data, normalizer) ==
  Then(MatMul(data, T(data)), LAMBDA product :
    Then(Dot(Mean(data), Mean(data)), LAMBDA means :
      make_symmetric(SubScalar(DivScalar(product, Normalizer(data, normalizer)),
                               means))))

cross_covariance_matrix(data1, data2, normalizer) ==
  Then(MatMul(data1, T(data2)), LAMBDA product :
    Then(Dot(Mean(data1), Mean(data2)), LAMBDA means :
      Return(SubScalar(DivScalar(product, Normalizer(data1, normalizer)),
                       means))))

(***************************************************************************)
(* The optimization problems.  A problem object is [kind, nb_filters,      *)
(* X_star]; a method's outcome is [result, self]: what the call returned   *)
(* or raised, and the object's attributes after it.                        *)
(***************************************************************************)
\* OptimizationProblem.__init__ as LCMVProblem and MMSEProblem call it: the
\* filter count is stored and no solution is saved yet
LCMVProblem(nb_filters) == [kind |-> "LCMV", nb_filters |-> nb_filters, X_star |-> None]

MMSEProblem(nb_filters) == [kind |-> "MMSE", nb_filters |-> nb_filters, X_star |-> None]

\* the closed form without its middle factor: inv(Ryy) @ B @ H.T
LCMV_X_star_unscaled(Ryy, B, H) ==
  Then(Inv(Ryy), LAMBDA Ryy_inv :
    Then(MatMul(Ryy_inv, B), LAMBDA Ryy_inv_B :
      MatMul(Ryy_inv_B, T(H))))

\* the closed form inv(Ryy) @ B @ inv(B.T @ inv(Ryy) @ B) @ H.T, in Python's
\* order of evaluation
LCMV_X_star(Ryy, B, H) ==
  Then(Inv(Ryy), LAMBDA Ryy_inv :
    Then(MatMul(Ryy_inv, B), LAMBDA Ryy_inv_B :
      Then(MatMul(T(B), Ryy_inv), LAMBDA Bt_Ryy_inv :
        Then(MatMul(Bt_Ryy_inv, B), LAMBDA gram :
          Then(Inv(gram), LAMBDA gram_inv :
            Then(MatMul(Ryy_inv_B, gram_inv), LAMBDA left :
              MatMul(left, T(H))))))))

\* a solve that saves whether or not save_solution is set
Saved_always(self, X_star, save_solution) ==
  [result |-> X_star,
   self |-> IF X_star.ok THEN [self EXCEPT !.X_star = Some(Val(X_star))] ELSE self]

\* the end of both solve methods: an exception leaves before the assignment
Saved(self, X_star, save_solution) ==
  [result |-> X_star,
   self |-> IF X_star.ok /\ save_solution
            THEN [self EXCEPT !.X_star = Some(Val(X_star))]
            ELSE self]

LCMV_solve(self, problem_inputs, save_solution) ==
  LET Y == problem_inputs.fused_signals[1]
      B == problem_inputs.fused_constants[1]
      H == problem_inputs.global_parameters[1]
  IN  Saved(self,
            Then(autocorrelation_matrix(Y, None), LAMBDA Ryy : LCMV_X_star(Ryy, B, H)),
            save_solution)

\* np.trace(X.T @ Ryy @ X)
Quadratic(X, Ryy) ==
  Then(MatMul(T(X), Ryy), LAMBDA Xt_Ryy :
    Then(MatMul(Xt_Ryy, X), LAMBDA form : Return(Trace(form))))

LCMV_evaluate_objective(self, X, problem_inputs) ==
  LET Y == problem_inputs.fused_signals[1]
  IN  [result |-> Then(autocorrelation_matrix(Y, None), LAMBDA Ryy : Quadratic(X, Ryy)),
       self |-> self]

\* the pair (equality_constraint, None); the function is kept as the B and H
\* it closes over
LCMV_get_problem_constraints(self, problem_inputs) ==
  [result |-> Return(<<Some([B |-> problem_inputs.fused_constants[1],
                             H |-> problem_inputs.global_parameters[1]]),
                       None>>),
   self |-> self]

\* equality_constraint(X) of the closure c: X.T @ B - H
equality_constraint(c, X) ==
  Then(MatMul(T(X), c.B), LAMBDA Xt_B : Sub(Xt_B, c.H))

\* a solve without the inversion: Ryd in place of inv(Ryy) @ Ryd
MMSE_solve_uninverted(self, problem_inputs, save_solution) ==
  LET Y == problem_inputs.fused_signals[1]
      D == problem_inputs.global_parameters[1]
  IN  Saved(self, cross_correlation_matrix(Y, D, None), save_solution)

MMSE_solve(self, problem_inputs, save_solution) ==
  LET Y == problem_inputs.fused_signals[1]
      D == problem_inputs.global_parameters[1]
  IN  Saved(self,
            Then(autocorrelation_matrix(Y, None), LAMBDA Ryy :
              Then(cross_correlation_matrix(Y, D, None), LAMBDA Ryd :
                Then(Inv(Ryy), LAMBDA Ryy_inv : MatMul(Ryy_inv, Ryd)))),
            save_solution)

\* np.trace(X.T @ Ryy @ X) - 2 * np.trace(X.T @ Ryd) + np.trace(Rdd)
MMSE_evaluate_objective(self, X, problem_inputs) ==
  LET Y == problem_inputs.fused_signals[1]
      D == problem_inputs.global_parameters[1]
  IN  [result |->
         Then(autocorrelation_matrix(Y, None), LAMBDA Ryy :
           Then(autocorrelation_matrix(D, None), LAMBDA Rdd :
             Then(cross_correlation_matrix(Y, D, None), LAMBDA Ryd :
               Then(Quadratic(X, Ryy), LAMBDA quadratic :
                 Then(MatMul(T(X), Ryd), LAMBDA Xt_Ryd :
                   Return(RAdd(RSub(quadratic, RMul(RInt(2), Trace(Xt_Ryd))),
                               Trace(Rdd)))))))),
       self |-> self]

\* def get_problem_constraints(self, **kwargs): return None.  The inputs passed
\* by position are one positional argument too many; passed by keyword they
\* are accepted, and the method returns None
MMSE_get_problem_constraints(self, passed_by_keyword) ==
  [result |-> IF passed_by_keyword THEN Return(None) ELSE Raise("TypeError"),
   self |-> self]

(***************************************************************************)
(* Bounds of the model.                                                    *)
(***************************************************************************)
\* weight_function is applied to 0..MaxWindowCount
MaxWindowCount == 60

\* generator seeds 1..MaxSeed
MaxSeed == 2

\* the entries of a signal block given to a problem are -1..MaxEntry
MaxEntry == 1

\* the normalizers given to the statistics are None and -1..MaxNormalizer
MaxNormalizer == 2

\* the consumer writes into returned bundles at most MaxWrites times
MaxWrites == 1

(***************************************************************************)
(* The drift weights alone: weight_function applied to a window count.     *)
(***************************************************************************)
InitW ==
  /\ wfArg \in 0..MaxWindowCount
  /\ wfOut = None
  /\ retr = None /\ rcall = None /\ prob = None /\ pcall = None
  /\ ucall = None /\ legacy = None /\ lcall = None /\ writes = 0

WeightFunction ==
  /\ wfOut = None
  /\ wfOut' = Some(weight_function(wfArg))
  /\ UNCHANGED <<wfArg, retr, rcall, prob, pcall, others>>

NextW == WeightFunction

SpecW == InitW /\ [][NextW]_vars

(***************************************************************************)
(* Two retrievers built with the same arguments from generators in the     *)
(* same state, and a driver that asks them for windows.  rcall is the last *)
(* call: the retriever, the window asked for, the outcome, and whether the *)
(* call before it asked the other retriever for the same window.           *)
(***************************************************************************)
Retrievers == 1..2

\* the arguments of __init__; the variances are squares of rationals, and the
\* window counts lie around RampThreshold
RetrieverArgs ==
  [window_length : {3},
   nb_sensors : {2},
   nb_sources : 1..2,
   nb_windows : (RampThreshold - 1)..(RampThreshold + 1),
   rng : 1..MaxSeed,
   nb_filters : {2},
   nb_steering : {None, Some(1), Some(2)},
   signal_var : {RInt(1)},
   noise_var : {Rat(1, 4)},
   mixture_var : {RInt(1)},
   diff_var : {RInt(1)}]

\* the draws of A_0 and Delta for which the ratio of their norms is rational
ExactNorms(a) ==
  LET sA == RngAfter(a.rng, a.nb_sources * a.window_length)
      A_0 == Normal(sA, Sqrt(a.mixture_var), a.nb_sensors, a.nb_sources)
      Delta0 == Normal(RngAfter(sA, a.nb_sensors * a.nb_sources),
                       Sqrt(a.mixture_var), a.nb_sensors, a.nb_sources)
  IN  IsSquare(RDiv(FroSq(A_0), FroSq(Delta0)))

InitR ==
  /\ \E a \in RetrieverArgs :
       /\ ExactNorms(a)
       /\ retr = [args |-> a,
                  obj |-> [i \in Retrievers |->
                             [self |-> LCMVDataRetriever(a), rng |-> RngAfterInit(a)]]]
  /\ rcall = None
  /\ wfArg = 0 /\ wfOut = None /\ prob = None /\ pcall = None
  /\ ucall = None /\ legacy = None /\ lcall = None /\ writes = 0

\* the driver calls get_data_window(window_id) on retriever i
GetDataWindow(i, window_id) ==
  /\ rcall' = Some([i |-> i,
                    window_id |-> window_id,
                    result |-> get_data_window(retr.obj[i].self, window_id),
                    mirrored |-> /\ rcall # None
                                 /\ Get(rcall).i # i
                                 /\ Get(rcall).window_id = window_id])
  /\ retr' = [retr EXCEPT
                !.obj[i].self = after_get_data_window(@, window_id),
                !.obj[i].rng = rng_after_get_data_window(retr.obj[i].self, @)]
  /\ UNCHANGED <<wfArg, wfOut, prob, pcall, others>>

NextR ==
  \E i \in Retrievers :
    \E window_id \in (-(retr.args.nb_windows + 1))..(retr.args.nb_windows + 1) :
      GetDataWindow(i, window_id)

SpecR == InitR /\ [][NextR]_vars

(***************************************************************************)
(* A canonical and a legacy retriever built with the same arguments from   *)
(* generators in the same state, and asked for the same window.            *)
(***************************************************************************)
InitL ==
  /\ \E a \in RetrieverArgs :
       /\ ExactNorms(a)
       /\ retr = [args |-> a,
                  obj |-> [i \in Retrievers |->
                             [self |-> LCMVDataRetriever(a), rng |-> RngAfterInit(a)]]]
       /\ legacy = Some([self |-> Legacy_LCMVDataRetriever(a),
                         rng |-> RngAfterInit(a)])
  /\ rcall = None
  /\ lcall = None
  /\ wfArg = 0 /\ wfOut = None /\ prob = None /\ pcall = None
  /\ ucall = None /\ writes = 0

\* get_data_window(window_id) on the canonical retriever and
\* get_current_window(window_id) on the legacy one
GetBothWindows ==
  /\ lcall = None
  /\ \E window_id \in (-(retr.args.nb_windows + 1))..(retr.args.nb_windows + 1) :
       /\ rcall' = Some([i |-> 1,
                         window_id |-> window_id,
                         result |-> get_data_window(retr.obj[1].self, window_id),
                         mirrored |-> FALSE])
       /\ lcall' = Some([window_id |-> window_id,
                         result |-> get_current_window(Get(legacy).self, window_id)])
       /\ UNCHANGED <<wfArg, wfOut, retr, prob, pcall, ucall, legacy, writes>>

NextL == GetBothWindows

SpecL == InitL /\ [][NextL]_vars

(***************************************************************************)
(* A retriever and a consumer that writes into the bundles it gets.  The   *)
(* arrays of a bundle are objects: fused_constants[0] is self.B itself,    *)
(* which is the view self.A_0[:, 0:nb_steering] of the storage of self.A_0,*)
(* global_parameters[0] is self.H itself, and fused_signals[0] is the new  *)
(* array normalize returned.                                               *)
(***************************************************************************)
\* matrix[r, c] = v, in place
Written(matrix, r, c, v) == [matrix EXCEPT ![r][c] = v]

\* the retriever's attributes after entry (r, c) of a matrix of a returned
\* bundle is assigned v in place
after_bundle_write(self, field, r, c, v) ==
  IF field = "fused_constants"
  THEN [self EXCEPT !.B = Written(@, r, c, v), !.A_0 = Written(@, r, c, v)]
  ELSE IF field = "global_parameters"
  THEN [self EXCEPT !.H = Written(@, r, c, v)]
  ELSE self

\* zero, as an entry of the matrix: a normalized signal entry is kept as its
\* sign and square
ZeroOf(field) == IF field = "fused_signals" THEN <<0, RInt(0)>> ELSE RInt(0)

InitA ==
  /\ \E a \in RetrieverArgs :
       /\ ExactNorms(a)
       /\ a.nb_windows = RampThreshold
       /\ a.nb_sources = 2
       /\ retr = [args |-> a,
                  obj |-> [i \in Retrievers |->
                             [self |-> LCMVDataRetriever(a), rng |-> RngAfterInit(a)]]]
  /\ rcall = None
  /\ wfArg = 0 /\ wfOut = None /\ prob = None /\ pcall = None
  /\ ucall = None /\ legacy = None /\ lcall = None /\ writes = 0

GetAnyDataWindow ==
  /\ retr # None
  /\ \E window_id \in 0..(retr.args.nb_windows - 1) : GetDataWindow(1, window_id)

\* the consumer sets to zero an entry of a matrix of the bundle it got last
ConsumerWrites ==
  /\ writes < MaxWrites
  /\ rcall # None
  /\ Get(rcall).result.ok
  /\ \E field \in {"fused_signals", "fused_constants", "global_parameters"} :
       LET bundle == Val(Get(rcall).result)
           matrix == bundle[field][1]
       IN  \E r \in 1..Rows(matrix), c \in 1..Cols(matrix) :
             /\ rcall' = Some([Get(rcall) EXCEPT
                                 !.result = Return([bundle EXCEPT
                                   ![field] = <<Written(matrix, r, c, ZeroOf(field))>>])])
             /\ retr' = [retr EXCEPT
                           !.obj[Get(rcall).i].self =
                             after_bundle_write(@, field, r, c, ZeroOf(field))]
             /\ writes' = writes + 1
             /\ UNCHANGED <<wfArg, wfOut, prob, pcall, ucall, legacy, lcall>>

NextA ==
  \/ GetAnyDataWindow
  \/ ConsumerWrites

SpecA == InitA /\ [][NextA]_vars

(***************************************************************************)
(* The problems and their driver.  pcall is the last call: the method, its *)
(* arguments and its outcome.                                              *)
(***************************************************************************)
\* the r x c matrices with entries in vals
Mats(r, c, vals) == {Real(m) : m \in [1..r -> [1..c -> vals]]}

\* an r x c matrix of full rank: ones on and above the diagonal
Canon(r, c) == Matrix(r, c, LAMBDA i, j : IF i <= j THEN RInt(1) ELSE RInt(0))

\* inputs of every shape: sensors, steering vectors and rows in 1..2,
\* samples in 2..3
ShapeInputs(kind) ==
  IF kind = "LCMV"
  THEN {ProblemInputs(<<Canon(m, t)>>, <<Canon(mb, p)>>, <<Canon(q, ph)>>) :
          m \in 1..2, t \in 2..3, mb \in 1..2, p \in 1..2, q \in 1..2, ph \in 1..2}
  ELSE {ProblemInputs(<<Canon(m, t)>>, <<>>, <<Canon(q, td)>>) :
          m \in 1..2, t \in 2..3, q \in 1..2, td \in 2..3}

\* inputs of matching shapes and many values: two sensors, two samples and,
\* for LCMV, one steering vector
ValueInputs(kind) ==
  IF kind = "LCMV"
  THEN {ProblemInputs(<<Y>>, <<B>>, <<H>>) :
          Y \in Mats(2, 2, -1..MaxEntry),
          B \in Mats(2, 1, {0, 1}),
          H \in UNION {Mats(q, 1, {-1, 2}) : q \in 1..2}}
  ELSE {ProblemInputs(<<Y>>, <<>>, <<D>>) :
          Y \in Mats(2, 2, -1..MaxEntry),
          D \in UNION {Mats(q, 2, {-1, 1}) : q \in 1..2}}

\* candidate estimators of every shape
Candidates == UNION {Mats(r, c, {1, 2}) : r \in 1..2, c \in 1..2}

Problems == {LCMVProblem(q) : q \in 1..2} \cup {MMSEProblem(q) : q \in 1..2}

\* the method of the problem's class
solve(self, problem_inputs, save_solution) ==
  IF self.kind = "LCMV" THEN LCMV_solve(self, problem_inputs, save_solution)
  ELSE MMSE_solve(self, problem_inputs, save_solution)

evaluate_objective(self, X, problem_inputs) ==
  IF self.kind = "LCMV" THEN LCMV_evaluate_objective(self, X, problem_inputs)
  ELSE MMSE_evaluate_objective(self, X, problem_inputs)

get_problem_constraints(self, problem_inputs, passed_by_keyword) ==
  IF self.kind = "LCMV" THEN LCMV_get_problem_constraints(self, problem_inputs)
  ELSE MMSE_get_problem_constraints(self, passed_by_keyword)

Call(op, problem_inputs, X, save_solution, outcome) ==
  /\ pcall' = Some([op |-> op,
                    problem_inputs |-> problem_inputs,
                    X |-> X,
                    save_solution |-> save_solution,
                    result |-> outcome.result])
  /\ prob' = outcome.self
  /\ UNCHANGED <<wfArg, wfOut, retr, rcall, others>>

Solve(problem_inputs, save_solution) ==
  Call("solve", problem_inputs, None, save_solution,
       solve(prob, problem_inputs, save_solution))

EvaluateObjective(X, problem_inputs) ==
  Call("evaluate_objective", problem_inputs, Some(X), FALSE,
       evaluate_objective(prob, X, problem_inputs))

GetProblemConstraints(problem_inputs, passed_by_keyword) ==
  Call("get_problem_constraints", problem_inputs, None, FALSE,
       get_problem_constraints(prob, problem_inputs, passed_by_keyword))

\* the driver gets the constraints and, when there is an equality residual
\* function, applies it to X
EqualityResidual(X, problem_inputs) ==
  LET got == get_problem_constraints(prob, problem_inputs, FALSE)
  IN  /\ got.result.ok
      /\ Val(got.result) # None
      /\ Val(got.result)[1] # None
      /\ Call("equality_constraint", problem_inputs, Some(X), FALSE,
              [result |-> equality_constraint(Get(Val(got.result)[1]), X),
               self |-> got.self])

(***************************************************************************)
(* One call on a fresh problem, over inputs of many values and shapes.     *)
(***************************************************************************)
InitS ==
  /\ prob \in Problems
  /\ pcall = None
  /\ wfArg = 0 /\ wfOut = None /\ retr = None /\ rcall = None
  /\ ucall = None /\ legacy = None /\ lcall = None /\ writes = 0

SolveOnce ==
  /\ pcall = None
  /\ \E problem_inputs \in ValueInputs(prob.kind) \cup ShapeInputs(prob.kind) :
       Solve(problem_inputs, FALSE)

EvaluateObjectiveOnce ==
  /\ pcall = None
  /\ \E problem_inputs \in ShapeInputs(prob.kind), X \in Candidates :
       EvaluateObjective(X, problem_inputs)

EqualityResidualOnce ==
  /\ pcall = None
  /\ \E problem_inputs \in ShapeInputs(prob.kind), X \in Candidates :
       EqualityResidual(X, problem_inputs)

GetProblemConstraintsOnce ==
  /\ pcall = None
  /\ \E problem_inputs \in ShapeInputs(prob.kind), passed_by_keyword \in BOOLEAN :
       GetProblemConstraints(problem_inputs, passed_by_keyword)

NextS ==
  \/ SolveOnce
  \/ EvaluateObjectiveOnce
  \/ EqualityResidualOnce
  \/ GetProblemConstraintsOnce

SpecS == InitS /\ [][NextS]_vars

(***************************************************************************)
(* Any number of calls on one problem, over a few inputs: some solvable,   *)
(* some with a singular Ryy or Gram matrix, some with mismatched shapes.   *)
(***************************************************************************)
\* the r x c matrix of ones: its rows are equal
Ones(r, c) == Matrix(r, c, LAMBDA i, j : RInt(1))

\* the r x c matrix of zeros
Nulls(r, c) == Matrix(r, c, LAMBDA i, j : RInt(0))

FewInputs(kind) ==
  IF kind = "LCMV"
  THEN {ProblemInputs(<<Y>>, <<B>>, <<H>>) :
          Y \in {Canon(2, 3), Ones(2, 2)},
          B \in {Canon(2, 1), Canon(1, 1), Nulls(2, 1)},
          H \in Mats(1, 1, {-1, 2})}
  ELSE {ProblemInputs(<<Y>>, <<>>, <<D>>) :
          Y \in {Canon(2, 3), Ones(2, 2)},
          D \in {Canon(1, 3), Canon(2, 3), Canon(1, 2)}}

FewCandidates == {Canon(2, 1), Canon(1, 1)}

InitP ==
  /\ prob \in Problems
  /\ pcall = None
  /\ wfArg = 0 /\ wfOut = None /\ retr = None /\ rcall = None
  /\ ucall = None /\ legacy = None /\ lcall = None /\ writes = 0

SolveAny ==
  \E problem_inputs \in FewInputs(prob.kind), save_solution \in BOOLEAN :
    Solve(problem_inputs, save_solution)

EvaluateObjectiveAny ==
  \E problem_inputs \in FewInputs(prob.kind), X \in FewCandidates :
    EvaluateObjective(X, problem_inputs)

EqualityResidualAny ==
  \E problem_inputs \in FewInputs(prob.kind), X \in FewCandidates :
    EqualityResidual(X, problem_inputs)

GetProblemConstraintsAny ==
  \E problem_inputs \in FewInputs(prob.kind), passed_by_keyword \in BOOLEAN :
    GetProblemConstraints(problem_inputs, passed_by_keyword)

NextP ==
  \/ SolveAny
  \/ EvaluateObjectiveAny
  \/ EqualityResidualAny
  \/ GetProblemConstraintsAny

SpecP == InitP /\ [][NextP]_vars

(***************************************************************************)
(* An MMSE problem is solved, and its objective is then evaluated at the   *)
(* solution plus a perturbation.                                           *)
(***************************************************************************)
\* the matrices of the shape of X with entries -1/2, 0 and 1/2
Perturbations(X) ==
  {DivScalar(E, RInt(2)) : E \in Mats(Rows(X), Cols(X), {-1, 0, 1})}

\* two sensors and two samples; a target of one row, or one of two rows
TargetInputs ==
  {ProblemInputs(<<Y>>, <<>>, <<D>>) :
     Y \in Mats(2, 2, -1..MaxEntry),
     D \in Mats(1, 2, {-1, 1}) \cup {Real(<<<<1, -1>>, <<1, 1>>>>)}}

InitM ==
  /\ prob = MMSEProblem(2)
  /\ pcall = None
  /\ wfArg = 0 /\ wfOut = None /\ retr = None /\ rcall = None
  /\ ucall = None /\ legacy = None /\ lcall = None /\ writes = 0

SolveAndSave ==
  /\ pcall = None
  /\ \E problem_inputs \in TargetInputs : Solve(problem_inputs, TRUE)

EvaluatePerturbed ==
  /\ pcall # None
  /\ Get(pcall).op = "solve"
  /\ Get(pcall).result.ok
  /\ \E E \in Perturbations(Get(prob.X_star)) :
       EvaluateObjective(Val(Add(Get(prob.X_star), E)), Get(pcall).problem_inputs)

NextM ==
  \/ SolveAndSave
  \/ EvaluatePerturbed

SpecM == InitM /\ [][NextM]_vars

(***************************************************************************)
(* One call of a statistics utility.  ucall is the call: the function, its *)
(* arguments and its outcome.                                              *)
(***************************************************************************)
\* the blocks of one or two rows and one or two samples with entries in vals
Blocks(vals) == UNION {Mats(r, c, vals) : r \in 1..2, c \in 1..2}

Normalizers == {None} \cup {Some(k) : k \in -1..MaxNormalizer}

UCall(op, data1, data2, normalizer, result) ==
  /\ ucall' = Some([op |-> op,
                    data1 |-> data1,
                    data2 |-> data2,
                    normalizer |-> normalizer,
                    result |-> result])
  /\ UNCHANGED <<wfArg, wfOut, retr, rcall, prob, pcall, legacy, lcall, writes>>

AutocorrelationMatrix ==
  /\ ucall = None
  /\ \E data \in Blocks(-1..MaxEntry), normalizer \in Normalizers :
       UCall("autocorrelation_matrix", data, None, normalizer,
             autocorrelation_matrix(data, normalizer))

CrossCorrelationMatrix ==
  /\ ucall = None
  /\ \E data1 \in Blocks(-1..MaxEntry), data2 \in Blocks({-1, 1}),
        normalizer \in Normalizers :
       UCall("cross_correlation_matrix", data1, Some(data2), normalizer,
             cross_correlation_matrix(data1, data2, normalizer))

CovarianceMatrix ==
  /\ ucall = None
  /\ \E data \in Blocks(-1..MaxEntry), normalizer \in Normalizers :
       UCall("covariance_matrix", data, None, normalizer,
             covariance_matrix(data, normalizer))

CrossCovarianceMatrix ==
  /\ ucall = None
  /\ \E data1 \in Blocks(-1..MaxEntry), data2 \in Blocks({-1, 1}),
        normalizer \in Normalizers :
       UCall("cross_covariance_matrix", data1, Some(data2), normalizer,
             cross_covariance_matrix(data1, data2, normalizer))

InitU ==
  /\ ucall = None
  /\ wfArg = 0 /\ wfOut = None /\ retr = None /\ rcall = None
  /\ prob = None /\ pcall = None /\ legacy = None /\ lcall = None /\ writes = 0

NextU ==
  \/ AutocorrelationMatrix
  \/ CrossCorrelationMatrix
  \/ CovarianceMatrix
  \/ CrossCovarianceMatrix

SpecU == InitU /\ [][NextU]_vars

(***************************************************************************)
(* Claims about the drift weights (under SpecW).                           *)
(***************************************************************************)
\* the three segment lengths for a window count n
Seg1(n) == SegmentLength(5, n)

Seg2(n) == SegmentLength(3, n)

Seg3(n) == SegmentLength(2, n)

\* C4: weight_function(nb_windows) has exactly nb_windows entries, for every
\* nb_windows >= 0.
C4_OneWeightPerWindow == wfOut # None => Len(Get(wfOut)) = wfArg

\* the positions (counted from 0) at which the sequence w does not increase
Drops(w) == {p \in 1..(Len(w) - 1) : ~RLt(w[p], w[p + 1])}

\* C5: for n < 10 the weights are n zeros; for n >= 10 every weight is in
\* [0, 1), the sequence increases strictly except at exactly two positions, the
\* indices int(5n/10) and int(5n/10) + int(3n/10), where it is 0 again, and the
\* k-th entry of a segment is k over the segment's length.
C5_SawtoothShape ==
  wfOut # None =>
    LET n == wfArg
        w == Get(wfOut)
    IN  /\ n < 10 => /\ Len(w) = n
                     /\ \A p \in 1..Len(w) : w[p] = RInt(0)
        /\ n >= 10 =>
             /\ \A p \in 1..Len(w) : RLe(RInt(0), w[p]) /\ RLt(w[p], RInt(1))
             /\ Drops(w) = {Seg1(n), Seg1(n) + Seg2(n)}
             /\ Cardinality(Drops(w)) = 2
             /\ \A p \in Drops(w) : w[p + 1] = RInt(0)
             /\ \A k \in 0..(Seg1(n) - 1) : w[k + 1] = Rat(k, Seg1(n))
             /\ \A k \in 0..(Seg2(n) - 1) : w[Seg1(n) + k + 1] = Rat(k, Seg2(n))
             /\ \A k \in 0..(Seg3(n) - 1) :
                  w[Seg1(n) + Seg2(n) + k + 1] = Rat(k, Seg3(n))

\* weight_function has been applied to the window count 20 and gave weights
\* that fall back to 0 at the indices 10 and 16
C5_Witness ==
  /\ wfOut # None
  /\ wfArg = 20
  /\ Drops(Get(wfOut)) = {10, 16}

(***************************************************************************)
(* Claims about the windows of the retriever (under SpecR).                *)
(***************************************************************************)
InRange(window_id) == 0 <= window_id /\ window_id < retr.args.nb_windows

\* C1: get_data_window(window_id) returns a ProblemInputs for every window_id
\* with 0 <= window_id < nb_windows; it never fails with an index error there.
C1_InRangeWindowReturns ==
  rcall # None =>
    (InRange(Get(rcall).window_id) => Get(rcall).result.ok)

\* C6: for every window_id outside [0, nb_windows) get_data_window fails with a
\* bounds error and returns nothing; a negative window_id never wraps around.
C6_OutOfRangeWindowFails ==
  rcall # None =>
    (~InRange(Get(rcall).window_id) =>
       ~Get(rcall).result.ok /\ Get(rcall).result.err = "IndexError")

\* C7: two retrievers built from generators in the same state with the same
\* arguments return equal results for the same window_id, whatever calls were
\* made before: a call that asks one retriever for the window the call before
\* it asked the other for gives the same outcome.
C7_Deterministic ==
  [][(rcall # None /\ rcall' # None
        /\ Get(rcall').i # Get(rcall).i
        /\ Get(rcall').window_id = Get(rcall).window_id)
       => Get(rcall').result = Get(rcall).result]_vars

\* both retrievers have been asked, one after the other, for the same window
\* with a drift weight above 0, and the second returned a ProblemInputs
C7_Witness ==
  /\ rcall # None
  /\ Get(rcall).mirrored
  /\ Get(rcall).result.ok
  /\ InRange(Get(rcall).window_id)
  /\ retr.obj[1].self.weights[Get(rcall).window_id + 1] # RInt(0)

\* C13: the steering matrix B of a returned bundle has nb_steering columns
\* (nb_filters when nb_steering was passed as None), as many as the constraint
\* target H of the bundle.
C13_SteeringColumns ==
  (rcall # None /\ Get(rcall).result.ok) =>
    LET bundle == Val(Get(rcall).result)
        nb_steering == IF retr.args.nb_steering # None
                       THEN Get(retr.args.nb_steering)
                       ELSE retr.args.nb_filters
    IN  /\ Cols(bundle.fused_constants[1]) = nb_steering
        /\ Cols(bundle.fused_constants[1]) = Cols(bundle.global_parameters[1])

\* C16: after any calls of get_data_window the retriever's D, A_0, Delta,
\* noise, weights, B and H are as the constructor left them and the generator
\* is in the state the constructor left it in; the outcome of a call is the
\* one a newly constructed retriever gives for that window.
C16_StateAsConstructed ==
  /\ \A i \in Retrievers :
       /\ retr.obj[i].self = LCMVDataRetriever(retr.args)
       /\ retr.obj[i].rng = RngAfterInit(retr.args)
  /\ rcall # None =>
       Get(rcall).result = get_data_window(LCMVDataRetriever(retr.args),
                                           Get(rcall).window_id)

\* the second retriever returned window 4 of 10, of drift weight 4/5, after
\* the first had been asked for it
C16_Witness ==
  /\ rcall # None
  /\ Get(rcall).i = 2
  /\ Get(rcall).mirrored
  /\ Get(rcall).result.ok
  /\ retr.args.nb_windows = RampThreshold
  /\ Get(rcall).window_id = 4
  /\ retr.obj[2].self.weights[5] = Rat(4, 5)

(***************************************************************************)
(* Claims about the consumer's writes (under SpecA).                       *)
(***************************************************************************)
\* C17: whatever the consumer writes into the matrices of the bundles it
\* got, the retriever's A_0, B and H stay as constructed, and every call of
\* get_data_window gives the outcome a newly constructed retriever gives.
C17_BundleSharesNoStorage ==
  [][LET fresh == LCMVDataRetriever(retr.args)
     IN  /\ retr'.obj[1].self.A_0 = fresh.A_0
         /\ retr'.obj[1].self.B = fresh.B
         /\ retr'.obj[1].self.H = fresh.H
         /\ writes' = writes =>
              Get(rcall').result = get_data_window(fresh, Get(rcall').window_id)]_vars

(***************************************************************************)
(* Claims about the legacy retriever (under SpecL).                        *)
(***************************************************************************)
\* C18: the legacy retriever holds the drift weights of the canonical one,
\* and for every window_id its get_current_window and the canonical
\* get_data_window return equal bundles or both fail.
C18_LegacyMirrorsCanonical ==
  /\ Get(legacy).self.weights = retr.obj[1].self.weights
  /\ lcall # None =>
       IF Get(rcall).result.ok
       THEN Get(lcall).result = Get(rcall).result
       ELSE ~Get(lcall).result.ok

(***************************************************************************)
(* Claims about one call on a problem (under SpecS).                       *)
(***************************************************************************)
Called(kind, op) ==
  /\ pcall # None
  /\ prob.kind = kind
  /\ Get(pcall).op = op

IsZero(matrix) ==
  \A i \in 1..Rows(matrix) : \A j \in 1..Cols(matrix) : matrix[i][j] = RInt(0)

\* C2: whenever the LCMV solve returns X* for (Y, B, H), the equality residual
\* function that get_problem_constraints returns for the same inputs gives
\* X*^T B - H equal to the zero matrix, and there is no inequality residual
\* function.
C2_ConstraintSatisfied ==
  (Called("LCMV", "solve") /\ Get(pcall).result.ok) =>
    LET X_star == Val(Get(pcall).result)
        H == Get(pcall).problem_inputs.global_parameters[1]
        constraints == Val(LCMV_get_problem_constraints(
                             prob, Get(pcall).problem_inputs).result)
    IN  /\ constraints[2] = None
        /\ constraints[1] # None
        /\ LET residual == equality_constraint(Get(constraints[1]), X_star)
           IN  /\ residual.ok
               /\ Shape(Val(residual)) = Shape(H)
               /\ IsZero(Val(residual))

\* the LCMV solve returned a non-zero estimator of two filters for a steering
\* vector
C2_Witness ==
  /\ Called("LCMV", "solve")
  /\ Get(pcall).result.ok
  /\ Shape(Val(Get(pcall).result)) = <<2, 2>>
  /\ Shape(Get(pcall).problem_inputs.fused_constants[1]) = <<2, 1>>
  /\ ~IsZero(Val(Get(pcall).result))

\* C3: every matrix solve returns has as many columns as the nb_filters the
\* problem was constructed with.
C3_ColumnsEqualFilterCount ==
  (pcall # None /\ Get(pcall).op = "solve" /\ Get(pcall).result.ok) =>
    Cols(Val(Get(pcall).result)) = prob.nb_filters

\* C8: the MMSE get_problem_constraints called with the problem inputs returns
\* the pair (None, None): it does not fail and does not return a bare None.
C8_MMSENoConstraintsPair ==
  Called("MMSE", "get_problem_constraints") =>
    /\ Get(pcall).result.ok
    /\ Val(Get(pcall).result) = <<None, None>>

\* the dimensions of the last call's arguments do not fit: sensors and steering
\* rows, steering and target columns, samples of signal and target, or the
\* columns of X and the rows of the target
Incompatible ==
  LET Y == Get(pcall).problem_inputs.fused_signals[1]
      G == Get(pcall).problem_inputs.global_parameters[1]
      X == Get(pcall).X
  IN  \/ X # None /\ Cols(Get(X)) # Rows(G)
      \/ /\ prob.kind = "LCMV"
         /\ LET B == Get(pcall).problem_inputs.fused_constants[1]
            IN  Rows(Y) # Rows(B) \/ Cols(B) # Cols(G)
      \/ /\ prob.kind = "MMSE"
         /\ Cols(Y) # Cols(G)

\* C10: with incompatible dimensions, solve, evaluate_objective and the
\* equality residual function fail with an error; none returns a value.
C10_ShapeMismatchFails ==
  (/\ pcall # None
   /\ Get(pcall).op \in {"solve", "evaluate_objective", "equality_constraint"}
   /\ Incompatible)
    => ~Get(pcall).result.ok

(***************************************************************************)
(* Claims about the saved solution (under SpecP).                          *)
(***************************************************************************)
\* C9: the saved solution is the result of the most recent solve that was
\* called with save_solution set and returned; every other call leaves it
\* as it was.
C9_SavedSolution ==
  [][pcall' # None =>
       IF /\ Get(pcall').op = "solve"
          /\ Get(pcall').save_solution
          /\ Get(pcall').result.ok
       THEN prob'.X_star = Some(Val(Get(pcall').result))
       ELSE prob'.X_star = prob.X_star]_vars

\* a solution is saved, and a later solve without save_solution returned
\* another one
C9_Witness ==
  /\ pcall # None
  /\ Get(pcall).op = "solve"
  /\ ~Get(pcall).save_solution
  /\ Get(pcall).result.ok
  /\ prob.X_star # None
  /\ prob.X_star # Some(Val(Get(pcall).result))

\* the autocorrelation matrix of the signal block is singular
SingularRyy(problem_inputs) ==
  Det(Val(autocorrelation_matrix(problem_inputs.fused_signals[1], None))) = RInt(0)

\* Ryy is invertible, B has one row per sensor, and B.T @ inv(Ryy) @ B is
\* singular
SingularGram(problem_inputs) ==
  LET Ryy == Val(autocorrelation_matrix(problem_inputs.fused_signals[1], None))
      B == problem_inputs.fused_constants[1]
  IN  /\ ~SingularRyy(problem_inputs)
      /\ Rows(B) = Rows(Ryy)
      /\ Det(Val(MatMul(Val(MatMul(T(B), Val(Inv(Ryy)))), B))) = RInt(0)

\* the MMSE target has another sample count than the signal block: the
\* cross-correlation, computed before the inversion, fails first
SamplesDiffer(problem_inputs) ==
  /\ prob.kind = "MMSE"
  /\ Cols(problem_inputs.fused_signals[1]) # Cols(problem_inputs.global_parameters[1])

\* C11: a solve whose Ryy (or, for LCMV, whose Gram matrix) is singular fails:
\* it returns no estimator, and the problem, its saved solution included, is
\* as before the call, also when save_solution is set.  The error is the
\* numerical error of the inversion whenever the inversion is reached.
C11_SingularFails ==
  [][(/\ pcall' # None
      /\ Get(pcall').op = "solve"
      /\ \/ SingularRyy(Get(pcall').problem_inputs)
         \/ prob.kind = "LCMV" /\ SingularGram(Get(pcall').problem_inputs))
       => /\ ~Get(pcall').result.ok
          /\ (~SamplesDiffer(Get(pcall').problem_inputs)
                => Get(pcall').result.err = "LinAlgError")
          /\ prob' = prob]_vars

\* a solution is saved, and a later LCMV solve with save_solution set met a
\* singular Gram matrix
C11_Witness ==
  /\ Called("LCMV", "solve")
  /\ Get(pcall).save_solution
  /\ SingularGram(Get(pcall).problem_inputs)
  /\ prob.X_star # None

\* a solution is saved, and a later MMSE solve with save_solution set met a
\* singular Ryy
C11_WitnessRyy ==
  /\ Called("MMSE", "solve")
  /\ Get(pcall).save_solution
  /\ SingularRyy(Get(pcall).problem_inputs)
  /\ ~SamplesDiffer(Get(pcall).problem_inputs)
  /\ prob.X_star # None

(***************************************************************************)
(* Claims about the MMSE solution (under SpecM).                           *)
(***************************************************************************)
\* the objective at the saved solution, on the inputs of the last call
ObjectiveAtSolution ==
  Val(evaluate_objective(prob, Get(prob.X_star), Get(pcall).problem_inputs).result)

\* C14: the objective at the solution X* that solve returned is at most the
\* objective at X* + E, on the same inputs, for every perturbation E of the
\* shape of X*.
C14_SolutionMinimizes ==
  (/\ Called("MMSE", "evaluate_objective")
   /\ prob.X_star # None)
    => /\ Get(pcall).result.ok
       /\ RLe(ObjectiveAtSolution, Val(Get(pcall).result))

\* the objective was evaluated away from the solution, two filters wide, and
\* is larger there
C14_Witness ==
  /\ Called("MMSE", "evaluate_objective")
  /\ prob.X_star # None
  /\ Get(Get(pcall).X) # Get(prob.X_star)
  /\ Cols(Get(prob.X_star)) = 2
  /\ Get(pcall).result.ok
  /\ RLt(ObjectiveAtSolution, Val(Get(pcall).result))

(***************************************************************************)
(* Claims about the statistics utilities (under SpecU).                    *)
(***************************************************************************)
\* entry (i, j) of both matrices is the same number
SameEntries(a, b) ==
  /\ Shape(a) = Shape(b)
  /\ \A i \in 1..Rows(a) : \A j \in 1..Cols(a) : REq(a[i][j], b[i][j])

\* correlation minus the outer product of the row means: entry (i, j) of
\* correlation less the mean of row i of data1 times the mean of row j of data2
LessOuterProduct(correlation, data1, data2) ==
  Matrix(Rows(data1), Rows(data2), LAMBDA i, j :
    RSub(correlation[i][j], RMul(RowMean(data1, i), RowMean(data2, j))))

\* C12: covariance_matrix(Y) is autocorrelation_matrix(Y) minus the outer
\* product of the row means of Y with themselves, and for Y and D of the same
\* sample count cross_covariance_matrix(Y, D) is cross_correlation_matrix(Y, D)
\* minus the outer product of the row means of Y with those of D.
C12_CovarianceSubtractsOuterProduct ==
  (ucall # None /\ Get(ucall).normalizer = None) =>
    LET Y == Get(ucall).data1
        result == Get(ucall).result
    IN  /\ Get(ucall).op = "covariance_matrix" =>
             /\ result.ok
             /\ SameEntries(Val(result),
                             LessOuterProduct(Val(autocorrelation_matrix(Y, None)), Y, Y))
        /\ (/\ Get(ucall).op = "cross_covariance_matrix"
            /\ Cols(Y) = Cols(Get(Get(ucall).data2))) =>
             LET D == Get(Get(ucall).data2)
             IN  /\ result.ok
                 /\ SameEntries(Val(result),
                                 LessOuterProduct(Val(cross_correlation_matrix(Y, D, None)),
                                                  Y, D))

\* entry (i, j) of the matrix equals entry (j, i)
EqualsTranspose(m) ==
  /\ Rows(m) = Cols(m)
  /\ \A i \in 1..Rows(m) : \A j \in 1..Cols(m) : REq(m[i][j], m[j][i])

\* C15 as claimed: for every signal block and every normalizer the result of
\* autocorrelation_matrix equals its own transpose, entry by entry.
C15_EqualsTranspose ==
  (ucall # None /\ Get(ucall).op = "autocorrelation_matrix") =>
    /\ Get(ucall).result.ok
    /\ EqualsTranspose(Val(Get(ucall).result))

\* C15, amended: for every signal block of finite entries and every
\* normalizer other than 0 (None standing for the sample count) the result
\* of autocorrelation_matrix equals its own transpose, entry by entry.
C15_EqualsTransposeNonzeroNormalizer ==
  (/\ ucall # None
   /\ Get(ucall).op = "autocorrelation_matrix"
   /\ Normalizer(Get(ucall).data1, Get(ucall).normalizer) # RInt(0))
    => /\ Get(ucall).result.ok
       /\ EqualsTranspose(Val(Get(ucall).result))

\* the autocorrelation of a block of two rows that are not orthogonal, with a
\* negative normalizer
C15_Witness ==
  /\ ucall # None
  /\ Get(ucall).op = "autocorrelation_matrix"
  /\ Get(ucall).normalizer = Some(-1)
  /\ Get(ucall).result.ok
  /\ Rows(Val(Get(ucall).result)) = 2
  /\ Val(Get(ucall).result)[1][2] # RInt(0)

====
